---- MODULE Spec2Model ----
(***************************************************************************)
(* Bull queue dashboard server (server code embedded in src/README.md,     *)
(* lines 152-1127): queue discovery, per-queue statistics, key inspector,  *)
(* Redis metrics and the socket.io push channel.                           *)
(*                                                                         *)
(* The Redis store and the Bull library are the environment: the store is  *)
(* a set of keys, each call to it either answers or rejects with an Error. *)
(* Times are whole seconds, CPU counters whole CPU-seconds.                *)
(***************************************************************************)
EXTENDS Integers, Sequences, FiniteSets, TLC

VARIABLES
    isOpen,              \* redisClient.isOpen
    store,               \* the keys present in the Redis database
    info,                \* the fields of the store's INFO report
    now,                 \* Date.now(), in seconds
    discoveredQueues,    \* Map queueName -> Bull handle (handle number)
    bullInstances,       \* the names Bull handles were constructed for, in order
    queueStats,          \* Map queueName -> last stats computed by getQueueStats
    redisMetricsHistory, \* {cpu, memory, timestamps}
    previousCpuValues,   \* {used_cpu_sys, used_cpu_user, timestamp}
    sockets,             \* per push-channel connection: progress of sendInitialData and the events emitted
    res,                 \* the last HTTP response, with the request and the store condition it answered
    discoveries,         \* what the last two discoverQueues calls that scanned the store returned
    dashboard            \* the browser's BullDashboard object, its timers and its queue grid

vars == <<isOpen, store, info, now, discoveredQueues, bullInstances, queueStats,
          redisMetricsHistory, previousCpuValues, sockets, res, discoveries, dashboard>>

\* The server's part of the state.
serverVars == <<isOpen, store, info, now, discoveredQueues, bullInstances, queueStats,
                redisMetricsHistory, previousCpuValues, sockets, res, discoveries>>

-----------------------------------------------------------------------------
(* Bounds of the model *)

MaxTime == 2
MaxCpu == 1
MaxConns == 1
MaxFetchFailures == 1
MaxRuns == 2
MaxUpdates == 2
MaxPending == 1

-----------------------------------------------------------------------------
(* Values *)

NULL == [null |-> TRUE]

knownQueues ==
    { "CRON_CAPACITY_RESOURCE_UPDATE",
      "CRON_SRVC_TYPE_PERIODIC_AUTOMATIONS",
      "WIFY_ASSIGNMENT_EXPORT_BY_EMAIL",
      "WIFY_AUTO_ASSIGN_AUTHORITY_ON_EXISTING_SRVC_REQS",
      "WIFY_AUTO_ASSIGN_AUTORITY_GET_SRVC_REQ_OF_SRVC_TYPE",
      "WIFY_COPY_LAST_SEEN_FROM_REDIS_TO_DB",
      "WIFY_CREATE_API_LOGS",
      "WIFY_GAI_RATING_FOR_TECHNICIAN_SUBTASK",
      "WIFY_GET_ALL_USERS_LAST_SEEN_FOR_COPY_TO_DB",
      "WIFY_NEW_SBTSK_CREATION_NOTIFICATION",
      "WIFY_NOTIFICATION_SEND_FCM",
      "WIFY_PROCESS_RATINGS_QUEUE",
      "WIFY_TMS_LOC_MAPPING_QUEUE",
      "WIFY_SRVC_REQ_EXPORT_BY_EMAIL",
      "WIFY_SBTSK_REQ_STATUS_UPDATE_WORKFLOW",
      "WIFY_SBTSK_REQ_CREATION_WORKFLOW",
      "WIFY_SRVC_REQ_CREATION_WORKFLOW" }

\* The queue names of the model in the order of Array.prototype.sort()
\* (UTF-16 code units: upper case before lower case).
SortedNames ==
    << "CRON_CAPACITY_RESOURCE_UPDATE",
       "CRON_SRVC_TYPE_PERIODIC_AUTOMATIONS",
       "WIFY_ASSIGNMENT_EXPORT_BY_EMAIL",
       "WIFY_AUTO_ASSIGN_AUTHORITY_ON_EXISTING_SRVC_REQS",
       "WIFY_AUTO_ASSIGN_AUTORITY_GET_SRVC_REQ_OF_SRVC_TYPE",
       "WIFY_COPY_LAST_SEEN_FROM_REDIS_TO_DB",
       "WIFY_CREATE_API_LOGS",
       "WIFY_GAI_RATING_FOR_TECHNICIAN_SUBTASK",
       "WIFY_GET_ALL_USERS_LAST_SEEN_FOR_COPY_TO_DB",
       "WIFY_NEW_SBTSK_CREATION_NOTIFICATION",
       "WIFY_NOTIFICATION_SEND_FCM",
       "WIFY_PROCESS_RATINGS_QUEUE",
       "WIFY_SBTSK_REQ_CREATION_WORKFLOW",
       "WIFY_SBTSK_REQ_STATUS_UPDATE_WORKFLOW",
       "WIFY_SRVC_REQ_CREATION_WORKFLOW",
       "WIFY_SRVC_REQ_EXPORT_BY_EMAIL",
       "WIFY_TMS_LOC_MAPPING_QUEUE",
       "emails", "ghost", "legacy", "orders", "reports" >>

\* Queue names that occur in store keys, and the names a request may carry.
StoreNames == {"orders", "emails", "legacy", "reports"}
RequestNames == {"orders", "legacy", "ghost"}

\* The queue whose keys the key inspector is asked for.
InspectedNames == {"reports"}

\* Names for which `new Bull(name, {redis})` throws.
Unconstructible == {"legacy"}

JobStatuses == {"waiting", "active", "completed", "failed", "delayed"}
RequestStatuses == JobStatuses \cup {"bogus"}

\* The keys the store may hold; a key is the sequence of its colon-delimited
\* segments (key.split(":")).
KeyUniverse ==
    { <<"bull", "orders", "wait">>,
      <<"bull", "orders", "failed">>,
      <<"bull", "emails", "active">>,
      <<"bull", "legacy", "id">> }

\* Keys of every store type, for the key inspector: job hashes, the state
\* lists, a sorted set, a set, a string and a stream.
InspectorKeys ==
    { <<"bull", "reports", "1">>, <<"bull", "reports", "2">>,
      <<"bull", "reports", "3">>, <<"bull", "reports", "4">>,
      <<"bull", "reports", "5">>,
      <<"bull", "reports", "wait">>, <<"bull", "reports", "active">>,
      <<"bull", "reports", "completed">>, <<"bull", "reports", "stalled">>,
      <<"bull", "reports", "id">>, <<"bull", "reports", "events">> }

\* Store-native type, element count and MEMORY USAGE of each key.
KeyType(k) ==
    CASE k[3] \in {"wait", "active"} -> "list"
      [] k[3] \in {"completed", "failed", "delayed"} -> "zset"
      [] k[3] \in {"1", "2", "3", "4", "5"} -> "hash"
      [] k[3] = "stalled" -> "set"
      [] k[3] = "events" -> "stream"
      [] OTHER -> "string"

KeyLen(k) ==
    CASE k = <<"bull", "orders", "wait">> -> 3
      [] k = <<"bull", "orders", "failed">> -> 1
      [] k = <<"bull", "emails", "active">> -> 2
      [] k = <<"bull", "reports", "1">> -> 150
      [] k = <<"bull", "reports", "2">> -> 80
      [] k = <<"bull", "reports", "3">> -> 100
      [] k = <<"bull", "reports", "4">> -> 101
      [] k = <<"bull", "reports", "5">> -> 120
      [] k = <<"bull", "reports", "wait">> -> 51
      [] k = <<"bull", "reports", "active">> -> 50
      [] k = <<"bull", "reports", "completed">> -> 120
      [] k = <<"bull", "reports", "stalled">> -> 60
      [] OTHER -> 1

\* The place, in the order HKEYS enumerates the fields of a hash, of a field
\* named "...": 0 when the hash has no such field.
HashDots(k) == IF k = <<"bull", "reports", "5">> THEN 7 ELSE 0

KeyMem(k) ==
    CASE k = <<"bull", "orders", "wait">> -> 2048
      [] k = <<"bull", "orders", "failed">> -> 512
      [] k = <<"bull", "emails", "active">> -> 1536
      [] k = <<"bull", "reports", "1">> -> 9000
      [] k = <<"bull", "reports", "2">> -> 9000
      [] k = <<"bull", "reports", "3">> -> 6001
      [] k = <<"bull", "reports", "4">> -> 6100
      [] k = <<"bull", "reports", "5">> -> 7000
      [] k = <<"bull", "reports", "id">> -> 128
      [] k = <<"bull", "reports", "wait">> -> 1000
      [] k = <<"bull", "reports", "active">> -> 1000
      [] k = <<"bull", "reports", "completed">> -> 2053
      [] k = <<"bull", "reports", "stalled">> -> 777
      [] k = <<"bull", "reports", "events">> -> 777
      [] OTHER -> 64

-----------------------------------------------------------------------------
(* Helpers *)

RECURSIVE SumOver(_, _)
SumOver(S, f) ==
    IF S = {} THEN 0
    ELSE LET x == CHOOSE y \in S : TRUE IN f[x] + SumOver(S \ {x}, f)

\* Number.prototype.toFixed(2) of n/d, as a count of hundredths.
ToFixed2(n, d) == (n \div d) * 100 + ((n % d) * 200 + d) \div (2 * d)

\* Math.round(n / d)
Round(n, d) == (2 * n + d) \div (2 * d)

\* redisClient.keys(`bull:${queueName}:*`)
KeysOf(st, queueName) == {k \in st : k[1] = "bull" /\ k[2] = queueName}

\* The state list a Bull getter reads: getWaiting reads the wait list, etc.
StateKey(queueName, status) ==
    <<"bull", queueName, IF status = "waiting" THEN "wait" ELSE status>>

\* queue.getWaiting() ... queue.getDelayed(): the jobs in one state, by id.
BullJobs(st, queueName, status) ==
    IF StateKey(queueName, status) \in st
    THEN [i \in 1..KeyLen(StateKey(queueName, status)) |-> [id |-> i, name |-> queueName]]
    ELSE <<>>

\* The outcomes of one call to the store through redisClient: a closed
\* client rejects every command.
Outcomes(open) == IF open THEN {"ok", "error"} ELSE {"error"}

\* The outcomes of a Bull query (Bull holds its own connections).
BullOutcomes == {"ok", "error"}

ErrorMessage == "Connection is closed."

-----------------------------------------------------------------------------
(* getQueueStats *)

\* How one getQueueStats call may go.  bull: outcome of the Promise.all of
\* the five getters and isPaused; keysOut: outcome of redisClient.keys, which
\* is called only after the getters answered; memFail: the keys whose MEMORY
\* USAGE query rejects.
StatsInputs(open, st, queueName) ==
    {[bull |-> "error", keysOut |-> "none", memFail |-> {}],
     [bull |-> "ok", keysOut |-> "error", memFail |-> {}]}
    \cup {[bull |-> "ok", keysOut |-> "ok", memFail |-> mf] :
            mf \in IF open THEN SUBSET {k \in st : k[1] = "bull" /\ k[2] = queueName} ELSE {}}

\* The memoryUsage block shared by getQueueStats and the GET /api/queues/:queueName
\* fallback: sum of MEMORY USAGE over the keys, a failed query counting 0.
MemoryUsageOf(keys, memFail) ==
    IF keys = {} THEN NULL
    ELSE LET sizes == [k \in keys |-> IF k \in memFail THEN 0 ELSE KeyMem(k)]
             totalBytes == SumOver(keys, sizes)
         IN [bytes |-> totalBytes, mb |-> ToFixed2(totalBytes, 1024 * 1024)]

ErrorStats(queueName, t) ==
    [name |-> queueName, waiting |-> 0, active |-> 0, completed |-> 0,
     failed |-> 0, delayed |-> 0, paused |-> FALSE, total |-> 0,
     memoryUsage |-> NULL, error |-> ErrorMessage, lastUpdated |-> t]

\* getQueueStats with `total` leaving out the failed jobs.
getQueueStats_noFailed(queueName, st, bull, keysOut, memFail, t) ==
    IF bull = "error" THEN ErrorStats(queueName, t)
    ELSE
      LET waiting == Len(BullJobs(st, queueName, "waiting"))
          active == Len(BullJobs(st, queueName, "active"))
          completed == Len(BullJobs(st, queueName, "completed"))
          failed == Len(BullJobs(st, queueName, "failed"))
          delayed == Len(BullJobs(st, queueName, "delayed"))
          memoryUsage == IF keysOut # "ok" THEN NULL
                         ELSE MemoryUsageOf(KeysOf(st, queueName), memFail)
      IN [name |-> queueName, waiting |-> waiting, active |-> active,
          completed |-> completed, failed |-> failed, delayed |-> delayed,
          paused |-> FALSE,
          total |-> waiting + active + completed + delayed,
          memoryUsage |-> memoryUsage, lastUpdated |-> t]

\* getQueueStats with the memory accounting inside the outer try only: a
\* failing key scan lands in the outer catch.
getQueueStats_memFatal(queueName, st, bull, keysOut, memFail, t) ==
    IF bull = "error" \/ keysOut = "error" THEN ErrorStats(queueName, t)
    ELSE
      LET waiting == Len(BullJobs(st, queueName, "waiting"))
          active == Len(BullJobs(st, queueName, "active"))
          completed == Len(BullJobs(st, queueName, "completed"))
          failed == Len(BullJobs(st, queueName, "failed"))
          delayed == Len(BullJobs(st, queueName, "delayed"))
      IN [name |-> queueName, waiting |-> waiting, active |-> active,
          completed |-> completed, failed |-> failed, delayed |-> delayed,
          paused |-> FALSE,
          total |-> waiting + active + completed + failed + delayed,
          memoryUsage |-> MemoryUsageOf(KeysOf(st, queueName), memFail),
          lastUpdated |-> t]

\* The outcomes are those of StatsInputs.
getQueueStats(queueName, st, bull, keysOut, memFail, t) ==
    IF bull = "error" THEN ErrorStats(queueName, t)
    ELSE
      LET waiting == Len(BullJobs(st, queueName, "waiting"))
          active == Len(BullJobs(st, queueName, "active"))
          completed == Len(BullJobs(st, queueName, "completed"))
          failed == Len(BullJobs(st, queueName, "failed"))
          delayed == Len(BullJobs(st, queueName, "delayed"))
          memoryUsage == IF keysOut # "ok" THEN NULL
                         ELSE MemoryUsageOf(KeysOf(st, queueName), memFail)
      IN [name |-> queueName, waiting |-> waiting, active |-> active,
          completed |-> completed, failed |-> failed, delayed |-> delayed,
          paused |-> FALSE,
          total |-> waiting + active + completed + failed + delayed,
          memoryUsage |-> memoryUsage, lastUpdated |-> t]

\* queueStats.set(queueName, stats): only the success path caches.
CacheStats(cache, stats) ==
    IF "error" \in DOMAIN stats THEN cache
    ELSE [n \in DOMAIN cache \cup {stats.name} |->
            IF n = stats.name THEN stats ELSE cache[n]]

\* A later queueStats.set(queueName, ...) replaces the cached object: the
\* stats objects still held by running sendInitialData calls are no longer
\* the cached ones.
Unalias(socks, stats) ==
    IF "error" \in DOMAIN stats THEN socks
    ELSE [c \in DOMAIN socks |->
            [socks[c] EXCEPT !.allStats =
                [j \in DOMAIN @ |->
                    IF @[j].stats.name = stats.name
                    THEN [@[j] EXCEPT !.cached = FALSE] ELSE @[j]]]]

-----------------------------------------------------------------------------
(* Registry *)

\* The registry started afresh at each registration.
Register_reset(dq, instances, queueName) ==
    [n \in {queueName} |-> Len(instances) + 1]

\* new Bull(queueName, {redis}); discoveredQueues.set(queueName, queue)
Register(dq, instances, queueName) ==
    [n \in DOMAIN dq \cup {queueName} |->
        IF n = queueName THEN Len(instances) + 1 ELSE dq[n]]

\* The orders in which a KEYS reply may list a set of keys.
RECURSIVE Orders(_)
Orders(S) ==
    IF S = {} THEN {<<>>}
    ELSE UNION {{<<x>> \o o : o \in Orders(S \ {x})} : x \in S}

-----------------------------------------------------------------------------
(* HTTP routes *)

SimpleQueue(name, t) ==
    [name |-> name, waiting |-> 0, active |-> 0, completed |-> 0,
     failed |-> 0, delayed |-> 0, paused |-> FALSE, total |-> 0,
     memoryUsage |-> NULL, lastUpdated |-> t]

\* app.get("/api/queues")
GetQueues ==
    LET allQueueNames == DOMAIN discoveredQueues \cup knownQueues
        queueNames == SelectSeq(SortedNames, LAMBDA n : n \in allQueueNames)
        simpleQueues == [i \in 1..Len(queueNames) |-> SimpleQueue(queueNames[i], now)]
    IN /\ res' = [route |-> "/api/queues", open |-> isOpen,
                  code |-> 200, body |-> simpleQueues]
       /\ UNCHANGED <<isOpen, store, info, now, discoveredQueues, bullInstances,
                      queueStats, redisMetricsHistory, previousCpuValues, sockets, discoveries, dashboard>>

\* The store-only record of the route's fallback when `new Bull` throws.
FallbackStats(queueName, st, memFail, t) ==
    [name |-> queueName, waiting |-> 0, active |-> 0, completed |-> 0,
     failed |-> 0, delayed |-> 0, paused |-> FALSE, total |-> 0,
     memoryUsage |-> MemoryUsageOf(KeysOf(st, queueName), memFail),
     lastUpdated |-> t,
     note |-> "Bull instance not available - showing Redis data only"]

\* app.get("/api/queues/:queueName")
GetQueue(queueName) ==
    LET req == [route |-> "/api/queues/:queueName", name |-> queueName, open |-> isOpen]
    IN
    IF queueName \in DOMAIN discoveredQueues \/ queueName \notin Unconstructible
    THEN \E in \in StatsInputs(isOpen, store, queueName) :
           LET stats == getQueueStats(queueName, store, in.bull, in.keysOut, in.memFail, now)
           IN /\ IF queueName \in DOMAIN discoveredQueues
                 THEN UNCHANGED <<discoveredQueues, bullInstances>>
                 ELSE /\ discoveredQueues' = Register(discoveredQueues, bullInstances, queueName)
                      /\ bullInstances' = Append(bullInstances, queueName)
              /\ queueStats' = CacheStats(queueStats, stats)
              /\ sockets' = Unalias(sockets, stats)
              /\ res' = req @@ [in |-> in, code |-> 200, body |-> stats]
              /\ UNCHANGED <<isOpen, store, info, now, redisMetricsHistory,
                             previousCpuValues, discoveries, dashboard>>
    ELSE \* the constructor threw; redisClient.keys is awaited inside the catch block
         \E keysOut \in Outcomes(isOpen) :
         \E memFail \in IF keysOut = "ok" THEN SUBSET KeysOf(store, queueName) ELSE {{}} :
           /\ res' = IF keysOut = "error"
                     THEN req @@ [in |-> [keysOut |-> keysOut, memFail |-> memFail],
                                  code |-> 500,
                                  body |-> [error |-> "Failed to fetch queue statistics"]]
                     ELSE req @@ [in |-> [keysOut |-> keysOut, memFail |-> memFail],
                                  code |-> 200,
                                  body |-> FallbackStats(queueName, store, memFail, now)]
           /\ UNCHANGED <<isOpen, store, info, now, discoveredQueues, bullInstances,
                          queueStats, redisMetricsHistory, previousCpuValues, sockets, discoveries, dashboard>>

\* The route fetching the jobs before it looks at the status.
GetJobs_fetchFirst(queueName, status) ==
    LET req == [route |-> "/api/queues/:queueName/jobs/:status",
                name |-> queueName, status |-> status, open |-> isOpen,
                registered |-> queueName \in DOMAIN discoveredQueues]
    IN /\ IF queueName \notin DOMAIN discoveredQueues
          THEN res' = req @@ [code |-> 404, body |-> [error |-> "Queue not found"]]
          ELSE \E bull \in BullOutcomes :
                 res' = IF bull = "error"
                        THEN req @@ [bull |-> bull, code |-> 500,
                                     body |-> [error |-> "Failed to fetch jobs"]]
                        ELSE IF status \notin JobStatuses
                        THEN req @@ [code |-> 400, body |-> [error |-> "Invalid job status"]]
                        ELSE req @@ [bull |-> bull, code |-> 200,
                                     body |-> BullJobs(store, queueName, status)]
       /\ UNCHANGED <<isOpen, store, info, now, discoveredQueues, bullInstances,
                      queueStats, redisMetricsHistory, previousCpuValues, sockets, discoveries, dashboard>>

\* app.get("/api/queues/:queueName/jobs/:status")
GetJobs(queueName, status) ==
    LET req == [route |-> "/api/queues/:queueName/jobs/:status",
                name |-> queueName, status |-> status, open |-> isOpen,
                registered |-> queueName \in DOMAIN discoveredQueues]
    IN /\ IF queueName \notin DOMAIN discoveredQueues
          THEN res' = req @@ [code |-> 404, body |-> [error |-> "Queue not found"]]
          ELSE IF status \notin JobStatuses
          THEN res' = req @@ [code |-> 400, body |-> [error |-> "Invalid job status"]]
          ELSE \E bull \in BullOutcomes :
                 res' = IF bull = "error"
                        THEN req @@ [bull |-> bull, code |-> 500,
                                     body |-> [error |-> "Failed to fetch jobs"]]
                        ELSE req @@ [bull |-> bull, code |-> 200,
                                     body |-> BullJobs(store, queueName, status)]
       /\ UNCHANGED <<isOpen, store, info, now, discoveredQueues, bullInstances,
                      queueStats, redisMetricsHistory, previousCpuValues, sockets, discoveries, dashboard>>

-----------------------------------------------------------------------------
(* Redis metrics *)

MAX_HISTORY_POINTS == 50

RECURSIVE Gcd(_, _)
Gcd(a, b) == IF b = 0 THEN a ELSE Gcd(b, a % b)

\* A non-negative number n/d, in lowest terms.
Num(n, d) == [num |-> n \div Gcd(n, d), den |-> d \div Gcd(n, d)]

Zero == Num(0, 1)

\* The INFO reports of the model: field -> value.  A field that is present
\* is a non-empty string, so it is truthy even when it reads "0".
Field(report, f) == IF f \in DOMAIN report THEN report[f] ELSE 0

\* Math.min(100, Math.max(0, (totalCpuDiff / timeDiff) * 100))
ClampPercent(totalCpuDiff, timeDiff) ==
    IF totalCpuDiff <= 0 THEN Zero
    ELSE IF totalCpuDiff >= timeDiff THEN Num(100, 1)
    ELSE Num(totalCpuDiff * 100, timeDiff)

\* The rate computation of calculateCpuUsagePercent, repeated inline in getRedisMetrics.
CpuUsagePercent(prev, report, t) ==
    LET currentCpuSys == Field(report, "used_cpu_sys")
        currentCpuUser == Field(report, "used_cpu_user")
    IN IF prev.timestamp > 0
       THEN LET timeDiff == t - prev.timestamp
                cpuSysDiff == currentCpuSys - prev.used_cpu_sys
                cpuUserDiff == currentCpuUser - prev.used_cpu_user
                totalCpuDiff == cpuSysDiff + cpuUserDiff
            IN IF timeDiff > 0 THEN ClampPercent(totalCpuDiff, timeDiff) ELSE Zero
       ELSE Zero

\* let previousCpuValues = {used_cpu_sys: 0, used_cpu_user: 0, timestamp: Date.now()}
InitialCpuValues(t) == [used_cpu_sys |-> 0, used_cpu_user |-> 0, timestamp |-> t]

\* "Update previous values"
NextCpuValues(report, t) ==
    [used_cpu_sys |-> Field(report, "used_cpu_sys"),
     used_cpu_user |-> Field(report, "used_cpu_user"),
     timestamp |-> t]

\* push()es followed by the shift()s that keep the last MAX_HISTORY_POINTS
PushHistory(h, cpu, mem, t) ==
    LET pushed == [cpu |-> Append(h.cpu, cpu),
                   memory |-> Append(h.memory, mem),
                   timestamps |-> Append(h.timestamps, t)]
    IN IF Len(pushed.cpu) > MAX_HISTORY_POINTS
       THEN [cpu |-> Tail(pushed.cpu), memory |-> Tail(pushed.memory),
             timestamps |-> Tail(pushed.timestamps)]
       ELSE pushed

\* getRedisMetrics, memoryMax: parseInt(maxmemory || 0) || parseInt(total_system_memory || 0)
PushMemoryMax(report) ==
    IF Field(report, "maxmemory") # 0 THEN Field(report, "maxmemory")
    ELSE Field(report, "total_system_memory")

\* The snapshot getRedisMetrics returns after a successful INFO; dbOut is the
\* outcome of the DBSIZE call, h the history after this call's push.
RedisMetrics(report, cpuUsagePercent, h, dbOut, dbSize) ==
    LET memoryUsed == Field(report, "used_memory")
        memoryMax == PushMemoryMax(report)
    IN [cpu |-> [current |-> cpuUsagePercent, history |-> h.cpu],
        memory |-> [used |-> memoryUsed, max |-> memoryMax,
                    usagePercent |-> IF memoryMax > 0
                                     THEN Num(memoryUsed * 100, memoryMax) ELSE Zero,
                    history |-> h.memory],
        timestamps |-> h.timestamps,
        connectedClients |-> Field(report, "connected_clients"),
        totalKeys |-> IF dbOut = "ok" THEN dbSize ELSE 0,
        totalKeysSizeMB |-> IF dbOut = "ok"
                            THEN Round(Field(report, "used_memory_dataset"), 1024 * 1024)
                            ELSE 0,
        keyspaceHits |-> Field(report, "keyspace_hits"),
        keyspaceMisses |-> Field(report, "keyspace_misses")]

\* The outcomes of a store call wrapped in withTimeout.
TimedOutcomes(open) == IF open THEN {"ok", "error", "timeout"} ELSE {"error"}

\* defaultMetrics of the /api/redis-metrics route
DefaultMetrics(t) ==
    [cpu |-> [current |-> Zero, history |-> <<Zero, Zero, Zero>>],
     memory |-> [used |-> 0, max |-> 0, usagePercent |-> Zero,
                 history |-> <<Zero, Zero, Zero>>],
     timestamps |-> <<t>>,
     connectedClients |-> 0, totalKeys |-> 0, totalKeysSizeMB |-> 0,
     keyspaceHits |-> 0, keyspaceMisses |-> 0]

\* The route's maxMemory: parseInt(info.maxmemory || info.total_system_memory || 0)
RouteMaxMemory(report) ==
    IF "maxmemory" \in DOMAIN report THEN report["maxmemory"]
    ELSE Field(report, "total_system_memory")

\* The metrics object the route builds after INFO and DBSIZE answered.
RouteMetrics(report, cpuUsagePercent, dbSize, t) ==
    LET usedMemory == Field(report, "used_memory")
        maxMemory == RouteMaxMemory(report)
    IN [cpu |-> [current |-> cpuUsagePercent, history |-> <<cpuUsagePercent>>],
        memory |-> [used |-> usedMemory, max |-> maxMemory,
                    usagePercent |-> [fixed2 |-> IF maxMemory > 0
                                                 THEN ToFixed2(usedMemory * 100, maxMemory)
                                                 ELSE 0],
                    history |-> <<usedMemory>>],
        timestamps |-> <<t>>,
        connectedClients |-> Field(report, "connected_clients"),
        totalKeys |-> dbSize,
        totalKeysSizeMB |-> Round(usedMemory, 1024 * 1024),
        keyspaceHits |-> Field(report, "keyspace_hits"),
        keyspaceMisses |-> Field(report, "keyspace_misses")]

\* How the two store calls of the route may go; DBSIZE is called only after
\* INFO answered with a report.
RouteInputs(open) ==
    IF ~open THEN {[infoOut |-> "none", dbOut |-> "none"]}
    ELSE {[infoOut |-> i, dbOut |-> "none"] : i \in {"error", "timeout", "empty"}}
         \cup {[infoOut |-> "ok", dbOut |-> d] : d \in TimedOutcomes(open)}

\* app.get("/api/redis-metrics")
GetRedisMetricsRoute ==
    \E in \in RouteInputs(isOpen) :
      LET req == [route |-> "/api/redis-metrics", open |-> isOpen,
                  in |-> in, prev |-> previousCpuValues]
      IN IF isOpen /\ in.infoOut = "ok" /\ in.dbOut = "ok"
         THEN LET cpuUsagePercent == CpuUsagePercent(previousCpuValues, info, now)
              IN /\ previousCpuValues' = NextCpuValues(info, now)
                 /\ res' = req @@ [code |-> 200, default |-> FALSE,
                                   body |-> RouteMetrics(info, cpuUsagePercent,
                                                         Cardinality(store), now)]
                 /\ UNCHANGED <<isOpen, store, info, now, discoveredQueues, bullInstances,
                                queueStats, redisMetricsHistory, sockets, discoveries, dashboard>>
         ELSE /\ res' = req @@ [code |-> 200, default |-> TRUE, body |-> DefaultMetrics(now)]
              /\ UNCHANGED <<isOpen, store, info, now, discoveredQueues, bullInstances,
                             queueStats, redisMetricsHistory, previousCpuValues, sockets, discoveries, dashboard>>

-----------------------------------------------------------------------------
(* Key inspector *)

\* The sort putting a key before the keys of equal memory usage that were
\* scanned before it.
RECURSIVE InsertByMemory_unstable(_, _)
InsertByMemory_unstable(sorted, e) ==
    IF sorted = <<>> THEN <<e>>
    ELSE IF Head(sorted).memoryUsage > e.memoryUsage
         THEN <<Head(sorted)>> \o InsertByMemory_unstable(Tail(sorted), e)
         ELSE <<e>> \o sorted

\* keysWithMemory.sort((a, b) => b.memoryUsage - a.memoryUsage): a stable
\* sort, heaviest first.
RECURSIVE InsertByMemory(_, _)
InsertByMemory(sorted, e) ==
    IF sorted = <<>> THEN <<e>>
    ELSE IF Head(sorted).memoryUsage >= e.memoryUsage
         THEN <<Head(sorted)>> \o InsertByMemory(Tail(sorted), e)
         ELSE <<e>> \o sorted

RECURSIVE SortByMemory(_)
SortByMemory(seq) ==
    IF seq = <<>> THEN <<>>
    ELSE InsertByMemory(SortByMemory(SubSeq(seq, 1, Len(seq) - 1)), seq[Len(seq)])

\* The elements a collection query returns, in the order it returns them, as
\* an array a marker entry can be pushed on.
Items(n) == [i \in 1..n |-> [item |-> i]]

\* A value that is an array of entries.
Array(entries) == [array |-> entries]

\* case "hash": the fields as an object keyed by field name; above 100
\* fields the first 50 of HKEYS, then hashObj["..."] assigned the marker,
\* which takes the place of a field of that name among the 50.
HashValue(k) ==
    LET n == KeyLen(k)
        marker == [more |-> n - 50]
    IN IF n > 100
       THEN IF HashDots(k) \in 1..50
            THEN Array([Items(50) EXCEPT ![HashDots(k)] = marker])
            ELSE Array(Append(Items(50), marker))
       ELSE Array(Items(n))

\* The collections cut to 50 elements with no marker pushed.
KeyValue_noMarker(k) ==
    LET type == KeyType(k)
        n == KeyLen(k)
    IN CASE type = "string" -> [get |-> k]
         [] type = "hash" -> HashValue(k)
         [] type \in {"list", "set", "zset"} ->
              IF n > 50 THEN Array(Items(50)) ELSE Array(Items(n))
         [] OTHER -> [placeholder |-> type]

\* value of a key by store type, with the truncation rules of the route
KeyValue(k) ==
    LET type == KeyType(k)
        n == KeyLen(k)
    IN CASE type = "string" -> [get |-> k]
         [] type = "hash" -> HashValue(k)
         [] type \in {"list", "set", "zset"} ->
              IF n > 50 THEN Array(Append(Items(50), [more |-> n - 50]))
              ELSE Array(Items(n))
         [] OTHER -> [placeholder |-> type]

\* The size cut to two decimals instead of rounded.
SizeFormatted_truncated(memoryUsage) == [kb |-> (memoryUsage * 100) \div 1024]

\* `${(memoryUsage / 1024).toFixed(2)} KB`
SizeFormatted(memoryUsage) == [kb |-> ToFixed2(memoryUsage, 1024)]

\* How the fetch of one key may go: "ok"; the value fetch rejects and the
\* second TYPE answers ("valueError") or not ("valueErrorUnknown"); the first
\* TYPE rejects and the second answers ("typeRetry") or not ("typeError").
FetchOutcomes == {"ok", "valueError", "valueErrorUnknown", "typeRetry", "typeError"}

\* The catch block without its second TYPE query.
KeyRecord_noRetry(keyInfo, fetch) ==
    LET key == keyInfo.key
        memoryUsage == keyInfo.memoryUsage
    IN IF fetch = "ok"
       THEN [key |-> key, type |-> KeyType(key), value |-> KeyValue(key),
             memoryUsage |-> memoryUsage, size |-> memoryUsage,
             sizeFormatted |-> SizeFormatted(memoryUsage)]
       ELSE IF KeyType(key) = "hash" /\ fetch \in {"valueError", "valueErrorUnknown"}
       THEN \* the hash case has its own try/catch
            [key |-> key, type |-> "hash",
             value |-> [hashFields |-> IF fetch = "valueError" THEN KeyLen(key) ELSE -1],
             memoryUsage |-> memoryUsage, size |-> memoryUsage,
             sizeFormatted |-> SizeFormatted(memoryUsage)]
       ELSE [key |-> key,
             type |-> "unknown",
             value |-> [failed |-> ErrorMessage],
             memoryUsage |-> memoryUsage, size |-> memoryUsage,
             sizeFormatted |-> SizeFormatted(memoryUsage)]

\* One record of keysWithValues.
KeyRecord(keyInfo, fetch) ==
    LET key == keyInfo.key
        memoryUsage == keyInfo.memoryUsage
    IN IF fetch = "ok"
       THEN [key |-> key, type |-> KeyType(key), value |-> KeyValue(key),
             memoryUsage |-> memoryUsage, size |-> memoryUsage,
             sizeFormatted |-> SizeFormatted(memoryUsage)]
       ELSE IF KeyType(key) = "hash" /\ fetch \in {"valueError", "valueErrorUnknown"}
       THEN \* the hash case has its own try/catch
            [key |-> key, type |-> "hash",
             value |-> [hashFields |-> IF fetch = "valueError" THEN KeyLen(key) ELSE -1],
             memoryUsage |-> memoryUsage, size |-> memoryUsage,
             sizeFormatted |-> SizeFormatted(memoryUsage)]
       ELSE [key |-> key,
             type |-> IF fetch \in {"valueError", "typeRetry"}
                      THEN KeyType(key) ELSE "unknown",
             value |-> [failed |-> ErrorMessage],
             memoryUsage |-> memoryUsage, size |-> memoryUsage,
             sizeFormatted |-> SizeFormatted(memoryUsage)]

\* The per-key outcomes of one inspection, at most MaxFetchFailures of them
\* failures; a key of a type the route fetches no value for cannot fail there.
FetchPlans(keys) ==
    {f \in [keys -> FetchOutcomes] :
        /\ Cardinality({k \in keys : f[k] # "ok"}) <= MaxFetchFailures
        /\ \A k \in keys :
              KeyType(k) \notin {"string", "hash", "list", "set", "zset"}
                 => f[k] \notin {"valueError", "valueErrorUnknown"}}

\* The keys whose MEMORY USAGE query fails in one inspection, at most
\* MaxFetchFailures of them.
MemoryFailures(keys) ==
    {m \in SUBSET keys : Cardinality(m) <= MaxFetchFailures}

\* app.get("/api/queues/:queueName/keys")
GetKeys(queueName) ==
    \E keysOut \in Outcomes(isOpen) :
      LET req == [route |-> "/api/queues/:queueName/keys", name |-> queueName,
                  open |-> isOpen, keysOut |-> keysOut]
      IN IF keysOut = "error"
         THEN /\ res' = req @@ [code |-> 500,
                                body |-> [error |-> "Failed to fetch queue keys"]]
              /\ UNCHANGED <<isOpen, store, info, now, discoveredQueues, bullInstances,
                             queueStats, redisMetricsHistory, previousCpuValues, sockets, discoveries, dashboard>>
         ELSE \E keys \in Orders(KeysOf(store, queueName)),
                 memFail \in MemoryFailures(KeysOf(store, queueName)),
                 fetch \in FetchPlans(KeysOf(store, queueName)) :
                LET keysWithMemory ==
                        [i \in 1..Len(keys) |->
                            [key |-> keys[i],
                             memoryUsage |-> IF keys[i] \in memFail THEN 0
                                             ELSE KeyMem(keys[i])]]
                    sortedKeys == SortByMemory(keysWithMemory)
                    keysWithValues ==
                        [i \in 1..Len(sortedKeys) |->
                            KeyRecord(sortedKeys[i], fetch[sortedKeys[i].key])]
                IN /\ res' = req @@ [code |-> 200, scan |-> keys, fetch |-> fetch,
                                     body |-> [queueName |-> queueName,
                                               totalKeys |-> Len(keys),
                                               keys |-> keysWithValues]]
                   /\ UNCHANGED <<isOpen, store, info, now, discoveredQueues,
                                  bullInstances, queueStats, redisMetricsHistory,
                                  previousCpuValues, sockets, discoveries, dashboard>>

-----------------------------------------------------------------------------
(* Queue discovery *)

\* The Set of parts[1] of the scanned keys, in insertion order.
RECURSIVE QueueNamesOf(_)
QueueNamesOf(keys) ==
    IF keys = <<>> THEN <<>>
    ELSE LET front == QueueNamesOf(SubSeq(keys, 1, Len(keys) - 1))
             key == keys[Len(keys)]
         IN IF Len(key) >= 2 /\ key[1] = "bull"
                /\ \A i \in 1..Len(front) : front[i] # key[2]
            THEN Append(front, key[2])
            ELSE front

\* The loop without the discoveredQueues.has(queueName) test: a handle is
\* constructed for every scanned name, registered or not.
RECURSIVE CreateInstances_always(_, _)
CreateInstances_always(reg, queueNames) ==
    IF queueNames = <<>> THEN reg
    ELSE LET queueName == Head(queueNames)
         IN IF queueName \in Unconstructible
            THEN CreateInstances_always(reg, Tail(queueNames))
            ELSE CreateInstances_always(
                    [map |-> Register(reg.map, reg.instances, queueName),
                     instances |-> Append(reg.instances, queueName)],
                    Tail(queueNames))

\* The loop that creates a Bull instance for every name not yet registered;
\* a constructor that throws is logged and the name is left unregistered.
RECURSIVE CreateInstances(_, _)
CreateInstances(reg, queueNames) ==
    IF queueNames = <<>> THEN reg
    ELSE LET queueName == Head(queueNames)
         IN IF queueName \in DOMAIN reg.map \/ queueName \in Unconstructible
            THEN CreateInstances(reg, Tail(queueNames))
            ELSE CreateInstances(
                    [map |-> Register(reg.map, reg.instances, queueName),
                     instances |-> Append(reg.instances, queueName)],
                    Tail(queueNames))

-----------------------------------------------------------------------------
(* Push channel: io.on("connection") runs sendInitialData, which awaits       *)
(* Promise.all([updateAllQueueStats(), getRedisMetrics()]) and then emits.    *)

Conns == 1..MaxConns

IdleSocket ==
    [state |-> "idle", connected |-> FALSE,
     qpc |-> "none", queueNames |-> <<>>, i |-> 0, allStats |-> <<>>,
     mpc |-> "none", prev |-> NULL, report |-> <<>>, cpu |-> Zero, metrics |-> NULL,
     events |-> <<>>]

\* io.on("connection"): sendInitialData() starts both computations, each runs
\* to its first await.
Connection(c) ==
    /\ sockets[c].state = "idle"
    /\ sockets' = [sockets EXCEPT ![c] =
          [@ EXCEPT !.state = "running", !.connected = TRUE,
                    !.qpc = IF isOpen THEN "keys" ELSE "done",
                    !.mpc = IF isOpen THEN "info" ELSE "done"]]
    /\ UNCHANGED <<isOpen, store, info, now, discoveredQueues, bullInstances,
                   queueStats, redisMetricsHistory, previousCpuValues, res, discoveries, dashboard>>

\* discoverQueues after `await redisClient.keys("bull:*")`
DiscoverReply(c) ==
    /\ sockets[c].qpc = "keys"
    /\ \E keysOut \in Outcomes(isOpen), keys \in Orders({k \in store : k[1] = "bull"}) :
         IF keysOut = "error"
         THEN /\ sockets' = [sockets EXCEPT ![c].qpc = "done"]
              /\ UNCHANGED <<discoveredQueues, bullInstances, discoveries>>
         ELSE LET queueNames == QueueNamesOf(keys)
                  reg == CreateInstances([map |-> discoveredQueues,
                                          instances |-> bullInstances], queueNames)
                  returned == [keys |-> {keys[i] : i \in DOMAIN keys},
                               names |-> {queueNames[i] : i \in DOMAIN queueNames},
                               created |-> SubSeq(reg.instances, Len(bullInstances) + 1,
                                                  Len(reg.instances)),
                               known |-> DOMAIN reg.map]
              IN /\ discoveredQueues' = reg.map
                 /\ bullInstances' = reg.instances
                 /\ discoveries' = IF discoveries = <<>> THEN <<returned>>
                                   ELSE <<discoveries[Len(discoveries)], returned>>
                 /\ sockets' = [sockets EXCEPT ![c] =
                       [@ EXCEPT !.queueNames = queueNames, !.i = 1,
                                 !.qpc = IF queueNames = <<>> THEN "done" ELSE "loop"]]
    /\ UNCHANGED <<isOpen, store, info, now, queueStats, redisMetricsHistory,
                   previousCpuValues, res, dashboard>>

\* The record the loop of updateAllQueueStats pushes when getQueueStats throws.
BasicStats(queueName) ==
    [name |-> queueName, waiting |-> 0, active |-> 0, completed |-> 0,
     failed |-> 0, total |-> 0]

\* getQueueStats reads error.message in its catch block, which throws when
\* the rejection carries no Error; Bull and the store client reject with
\* Error objects only.
getQueueStatsThrows(bull) == bull \notin {"ok", "error"}

\* The loop leaving out the record of a queue whose statistics failed.
StatsStep_dropFailed(c) ==
    /\ sockets[c].qpc = "loop"
    /\ LET queueName == sockets[c].queueNames[sockets[c].i]
       IN IF queueName \in DOMAIN discoveredQueues
          THEN \E in \in StatsInputs(isOpen, store, queueName) :
                 LET bull == in.bull
                     keysOut == in.keysOut
                     memFail == in.memFail
                     stats == IF getQueueStatsThrows(bull) THEN BasicStats(queueName)
                              ELSE getQueueStats(queueName, store, bull, keysOut, memFail, now)
                     cached == ~getQueueStatsThrows(bull) /\ "error" \notin DOMAIN stats
                 IN /\ queueStats' = IF cached THEN CacheStats(queueStats, stats)
                                     ELSE queueStats
                    /\ sockets' =
                         [IF cached THEN Unalias(sockets, stats) ELSE sockets
                            EXCEPT ![c] =
                               [@ EXCEPT !.allStats = IF "error" \in DOMAIN stats THEN @
                                                      ELSE Append(@, [stats |-> stats,
                                                                      cached |-> cached,
                                                                      in |-> in]),
                                         !.qpc = IF getQueueStatsThrows(bull)
                                                 THEN "next" ELSE "pause"]]
          ELSE /\ sockets' = [sockets EXCEPT ![c].qpc = "next"]
               /\ UNCHANGED queueStats
    /\ UNCHANGED <<isOpen, store, info, now, discoveredQueues, bullInstances,
                   redisMetricsHistory, previousCpuValues, res, discoveries, dashboard>>

\* One iteration of the loop of updateAllQueueStats, up to the 10 ms pause.
StatsStep(c) ==
    /\ sockets[c].qpc = "loop"
    /\ LET queueName == sockets[c].queueNames[sockets[c].i]
       IN IF queueName \in DOMAIN discoveredQueues
          THEN \E in \in StatsInputs(isOpen, store, queueName) :
                 LET bull == in.bull
                     keysOut == in.keysOut
                     memFail == in.memFail
                     stats == IF getQueueStatsThrows(bull) THEN BasicStats(queueName)
                              ELSE getQueueStats(queueName, store, bull, keysOut, memFail, now)
                     cached == ~getQueueStatsThrows(bull) /\ "error" \notin DOMAIN stats
                 IN /\ queueStats' = IF cached THEN CacheStats(queueStats, stats)
                                     ELSE queueStats
                    /\ sockets' =
                         [IF cached THEN Unalias(sockets, stats) ELSE sockets
                            EXCEPT ![c] =
                               [@ EXCEPT !.allStats = Append(@, [stats |-> stats,
                                                                 cached |-> cached,
                                                                 in |-> in]),
                                         !.qpc = IF getQueueStatsThrows(bull)
                                                 THEN "next" ELSE "pause"]]
          ELSE /\ sockets' = [sockets EXCEPT ![c].qpc = "next"]
               /\ UNCHANGED queueStats
    /\ UNCHANGED <<isOpen, store, info, now, discoveredQueues, bullInstances,
                   redisMetricsHistory, previousCpuValues, res, discoveries, dashboard>>

\* The loop going on to the next name while the statistics of the current
\* one are still awaited.
NextQueue_noWait(c) ==
    /\ sockets[c].qpc \in {"loop", "pause", "next"}
    /\ sockets' = [sockets EXCEPT ![c] =
          [@ EXCEPT !.i = @ + 1,
                    !.qpc = IF sockets[c].i + 1 > Len(sockets[c].queueNames)
                            THEN "done" ELSE "loop"]]
    /\ UNCHANGED <<isOpen, store, info, now, discoveredQueues, bullInstances,
                   queueStats, redisMetricsHistory, previousCpuValues, res, discoveries, dashboard>>

\* The 10 ms pause elapsed (or there was none): on to the next name.
NextQueue(c) ==
    /\ sockets[c].qpc \in {"pause", "next"}
    /\ sockets' = [sockets EXCEPT ![c] =
          [@ EXCEPT !.i = @ + 1,
                    !.qpc = IF sockets[c].i + 1 > Len(sockets[c].queueNames)
                            THEN "done" ELSE "loop"]]
    /\ UNCHANGED <<isOpen, store, info, now, discoveredQueues, bullInstances,
                   queueStats, redisMetricsHistory, previousCpuValues, res, discoveries, dashboard>>

\* The rate computed from the sample as it was read when the module loaded,
\* not as it is when the INFO report arrives.
InfoReply_staleRead(c) ==
    /\ sockets[c].mpc = "info"
    /\ \E infoOut \in TimedOutcomes(isOpen) \cup {"empty"} :
         IF infoOut \in {"error", "timeout"}
         THEN /\ sockets' = [sockets EXCEPT ![c].mpc = "done"]
              /\ UNCHANGED <<previousCpuValues, redisMetricsHistory>>
         ELSE LET report == IF infoOut = "ok" THEN info ELSE <<>>
                  cpuUsagePercent == CpuUsagePercent(InitialCpuValues(1), report, now)
                  memoryUsed == Field(report, "used_memory")
                  memoryMax == PushMemoryMax(report)
                  memoryUsagePercent == IF memoryMax > 0
                                        THEN Num(memoryUsed * 100, memoryMax) ELSE Zero
              IN /\ previousCpuValues' = NextCpuValues(report, now)
                 /\ redisMetricsHistory' =
                       PushHistory(redisMetricsHistory, cpuUsagePercent,
                                   memoryUsagePercent, now)
                 /\ sockets' = [sockets EXCEPT ![c] =
                       [@ EXCEPT !.mpc = "dbsize", !.prev = InitialCpuValues(1),
                                 !.report = report, !.cpu = cpuUsagePercent]]
    /\ UNCHANGED <<isOpen, store, info, now, discoveredQueues, bullInstances,
                   queueStats, res, discoveries, dashboard>>

\* getRedisMetrics after `await withTimeout(redisClient.info(), 3000)`: the
\* rate computation, the history update, then the DBSIZE call is issued.
InfoReply(c) ==
    /\ sockets[c].mpc = "info"
    /\ \E infoOut \in TimedOutcomes(isOpen) \cup {"empty"} :
         IF infoOut \in {"error", "timeout"}
         THEN /\ sockets' = [sockets EXCEPT ![c].mpc = "done"]
              /\ UNCHANGED <<previousCpuValues, redisMetricsHistory>>
         ELSE LET report == IF infoOut = "ok" THEN info ELSE <<>>
                  cpuUsagePercent == CpuUsagePercent(previousCpuValues, report, now)
                  memoryUsed == Field(report, "used_memory")
                  memoryMax == PushMemoryMax(report)
                  memoryUsagePercent == IF memoryMax > 0
                                        THEN Num(memoryUsed * 100, memoryMax) ELSE Zero
              IN /\ previousCpuValues' = NextCpuValues(report, now)
                 /\ redisMetricsHistory' =
                       PushHistory(redisMetricsHistory, cpuUsagePercent,
                                   memoryUsagePercent, now)
                 /\ sockets' = [sockets EXCEPT ![c] =
                       [@ EXCEPT !.mpc = "dbsize", !.prev = previousCpuValues,
                                 !.report = report, !.cpu = cpuUsagePercent]]
    /\ UNCHANGED <<isOpen, store, info, now, discoveredQueues, bullInstances,
                   queueStats, res, discoveries, dashboard>>

\* getRedisMetrics after `await withTimeout(redisClient.dbSize(), 1000)`
DbSizeReply(c) ==
    /\ sockets[c].mpc = "dbsize"
    /\ \E dbOut \in TimedOutcomes(isOpen) :
         sockets' = [sockets EXCEPT ![c] =
            [@ EXCEPT !.mpc = "done",
                      !.metrics = RedisMetrics(sockets[c].report, sockets[c].cpu,
                                               redisMetricsHistory, dbOut,
                                               Cardinality(store))]]
    /\ UNCHANGED <<isOpen, store, info, now, discoveredQueues, bullInstances,
                   queueStats, redisMetricsHistory, previousCpuValues, res, discoveries, dashboard>>

\* getQueueMemoryUsage is disabled: it returns 0.
getQueueMemoryUsage(queueName) == 0

\* statsWithMemory: every queueStat object gets memoryUsage overwritten in place.
WithMemory(stats) ==
    LET memoryBytes == getQueueMemoryUsage(stats.name)
        memoryUsage == [bytes |-> memoryBytes,
                        mb |-> ToFixed2(memoryBytes, 1024 * 1024)]
    IN [f \in DOMAIN stats \cup {"memoryUsage"} |->
          IF f = "memoryUsage" THEN memoryUsage ELSE stats[f]]

\* sendInitialData run again for a connection that already has its events
\* (a periodic push).
SendInitialData_periodic(c) ==
    /\ sockets[c].state \in {"running", "sent"}
    /\ sockets[c].qpc = "done"
    /\ sockets[c].mpc = "done"
    /\ LET allStats == sockets[c].allStats
           statsWithMemory == [j \in DOMAIN allStats |-> WithMemory(allStats[j].stats)]
           mutated == {j \in DOMAIN allStats : allStats[j].cached}
       IN /\ queueStats' =
                [n \in DOMAIN queueStats |->
                    IF \E j \in mutated : allStats[j].stats.name = n
                    THEN WithMemory(queueStats[n]) ELSE queueStats[n]]
          /\ sockets' = [sockets EXCEPT ![c] =
                [@ EXCEPT !.state = "sent", !.allStats = <<>>,
                          !.events = @ \o <<[event |-> "queueStats",
                                             data |-> statsWithMemory],
                                            [event |-> "redisMetrics",
                                             data |-> sockets[c].metrics]>>]]
    /\ UNCHANGED <<isOpen, store, info, now, discoveredQueues, bullInstances,
                   redisMetricsHistory, previousCpuValues, res, discoveries, dashboard>>

\* sendInitialData once both computations have settled: the two emits.
\* Neither computation rejects, so the catch block with its second pair of
\* emits is not entered.
SendInitialData(c) ==
    /\ sockets[c].state = "running"
    /\ sockets[c].qpc = "done"
    /\ sockets[c].mpc = "done"
    /\ LET allStats == sockets[c].allStats
           statsWithMemory == [j \in DOMAIN allStats |-> WithMemory(allStats[j].stats)]
           mutated == {j \in DOMAIN allStats : allStats[j].cached}
       IN /\ queueStats' =
                [n \in DOMAIN queueStats |->
                    IF \E j \in mutated : allStats[j].stats.name = n
                    THEN WithMemory(queueStats[n]) ELSE queueStats[n]]
          /\ sockets' = [sockets EXCEPT ![c] =
                [@ EXCEPT !.state = "sent", !.allStats = <<>>,
                          !.events = @ \o <<[event |-> "queueStats",
                                             data |-> statsWithMemory],
                                            [event |-> "redisMetrics",
                                             data |-> sockets[c].metrics]>>]]
    /\ UNCHANGED <<isOpen, store, info, now, discoveredQueues, bullInstances,
                   redisMetricsHistory, previousCpuValues, res, discoveries, dashboard>>

\* socket.on("disconnect"): only logs.
Disconnect(c) ==
    /\ sockets[c].connected
    /\ sockets' = [sockets EXCEPT ![c].connected = FALSE]
    /\ UNCHANGED <<isOpen, store, info, now, discoveredQueues, bullInstances,
                   queueStats, redisMetricsHistory, previousCpuValues, res, discoveries, dashboard>>

\* A new client connects after another has been served; the model reuses the
\* slot.  At most MaxRuns snapshots are in the metrics history by then.
Reconnect(c) ==
    /\ sockets[c].state = "sent"
    /\ Len(redisMetricsHistory.timestamps) < MaxRuns
    /\ sockets' = [sockets EXCEPT ![c] = IdleSocket]
    /\ UNCHANGED <<isOpen, store, info, now, discoveredQueues, bullInstances,
                   queueStats, redisMetricsHistory, previousCpuValues, res, discoveries, dashboard>>

-----------------------------------------------------------------------------
(* Environment: the store, its connection and the clock *)

ConnectionChange ==
    /\ isOpen' = ~isOpen
    /\ UNCHANGED <<store, info, now, discoveredQueues, bullInstances, queueStats,
                   redisMetricsHistory, previousCpuValues, sockets, res, discoveries, dashboard>>

\* Another program writes or deletes the key k.
ToggleKey(k) ==
    /\ store' = IF k \in store THEN store \ {k} ELSE store \cup {k}
    /\ UNCHANGED <<isOpen, info, now, discoveredQueues, bullInstances, queueStats,
                   redisMetricsHistory, previousCpuValues, sockets, res, discoveries, dashboard>>

StoreChange == \E k \in KeyUniverse \cup InspectorKeys : ToggleKey(k)

Tick ==
    /\ now < MaxTime
    /\ now' = now + 1
    /\ UNCHANGED <<isOpen, store, info, discoveredQueues, bullInstances, queueStats,
                   redisMetricsHistory, previousCpuValues, sockets, res, discoveries, dashboard>>

CpuWork ==
    /\ \E f \in {"used_cpu_sys", "used_cpu_user"} :
         /\ info[f] < MaxCpu
         /\ info' = [info EXCEPT ![f] = @ + 1]
    /\ UNCHANGED <<isOpen, store, now, discoveredQueues, bullInstances, queueStats,
                   redisMetricsHistory, previousCpuValues, sockets, res, discoveries, dashboard>>

\* The keys of two queues, one of them without a Bull handle.
DiscoveryKeys == KeysOf(KeyUniverse, "emails") \cup KeysOf(KeyUniverse, "legacy")

\* The stores a run about the queues may start from: empty, the two state
\* lists of one queue, the keys of two queues of which one has a Bull handle,
\* and every key of these queues.
QueueScenarios ==
    { {}, KeysOf(KeyUniverse, "orders"),
      KeysOf(KeyUniverse, "orders") \cup KeysOf(KeyUniverse, "legacy"),
      DiscoveryKeys, KeyUniverse }

\* The stores a run of the key inspector may start from: three job hashes,
\* the three state collections, a set beside a hash and a stream, and a
\* string beside two hashes, one of them with a field named "...".
InspectorScenarios ==
    { {k \in InspectorKeys : k[3] \in {"1", "2", "3"}},
      {k \in InspectorKeys : k[3] \in {"wait", "active", "completed"}},
      {k \in InspectorKeys : k[3] \in {"stalled", "4", "events"}},
      {k \in InspectorKeys : k[3] \in {"id", "2", "5"}} }

StoreScenarios == QueueScenarios \cup InspectorScenarios

\* An INFO report; maxmemory reads 0 when no limit is configured.
InfoReport(maxmemory) ==
    [used_cpu_sys |-> 0, used_cpu_user |-> 0,
     used_memory |-> 3 * 1024 * 1024, maxmemory |-> maxmemory,
     total_system_memory |-> 8 * 1024 * 1024,
     used_memory_dataset |-> 1024 * 1024,
     connected_clients |-> 2, keyspace_hits |-> 5, keyspace_misses |-> 1]

InfoReports == {InfoReport(0), InfoReport(4 * 1024 * 1024)}

-----------------------------------------------------------------------------
(* The browser dashboard (public/dashboard.js): the page shown, the queue   *)
(* list and its lazy loader.  One record holds the BullDashboard object's   *)
(* fields together with the timers it has set and the part of the document  *)
(* the loader writes.                                                        *)

\* Cards per row and rows per batch of the lazy loader.
cardsPerRow == 4
rowsToLoad == 5
batchSize == cardsPerRow * rowsToLoad

\* The seconds an auto-load interval counts down.
countdownStart == 5

\* A queue's entry in a stats list.  memoryUsage is the number the grid's
\* comparator reads, parseFloat(queue.memoryUsage?.mb) || 0: the server sends
\* memoryUsage null (GET /api/queues) or mb "0.00" (push channel).
QueueEntry(i) == [name |-> i, memoryUsage |-> 0]

QueueList(n) == [i \in 1..n |-> QueueEntry(i)]

\* The lengths of the lists pushed as queueStats: one entry per discovered
\* queue, none when the store is closed.
PushedSizes == {0, 2}

\* The lengths of the lists GET /api/queues answers with: the known queues
\* and the discovered ones.
FetchedSizes == {21}

\* The fields set by the constructor, before any event.  intervals holds the
\* countdown of every interval timer that is set and not cleared, oldest
\* first; autoLoadTimer is "null", "interval" (the handle of the newest live
\* interval) or "cleared" (the handle of an interval that was cleared).
\* timeouts holds the pending batch timeouts, oldest first.  container tells
\* whether the document has a .queue-cards-container, cards what it holds.
\* init() asks for the Redis metrics: a fetch is in flight from the start.
InitialDashboard ==
    [currentPage |-> "redis", queuesLoaded |-> FALSE,
     allQueues |-> <<>>, currentLoadedCount |-> 0, isLoading |-> FALSE,
     autoLoadTimer |-> "null", intervals |-> <<>>, timeouts |-> <<>>,
     container |-> FALSE, cards |-> <<>>,
     queueFetches |-> 0, metricsFetches |-> 1, refreshing |-> FALSE,
     updates |-> 0, last |-> "init"]

\* A pending batch timeout whose captured container left the document.
Detached(t) ==
    IF t.cardsContainer = "visible" THEN [t EXCEPT !.cardsContainer = "detached"] ELSE t

\* queues-grid.innerHTML = ...: whatever the grid held leaves the document.
SetInnerHTML(d) ==
    [d EXCEPT !.container = FALSE, !.cards = <<>>,
              !.timeouts = [i \in DOMAIN d.timeouts |-> Detached(d.timeouts[i])]]

showQueuesLoading(d) == SetInnerHTML(d)

showError(d) == SetInnerHTML(d)

\* clearInterval(this.autoLoadTimer): only a live interval's handle clears one.
ClearAutoLoadTimer(d) ==
    IF d.autoLoadTimer = "interval"
    THEN [d EXCEPT !.intervals = SubSeq(@, 1, Len(@) - 1), !.autoLoadTimer = "cleared"]
    ELSE d

loadNextBatch(d) ==
    IF d.isLoading \/ d.currentLoadedCount >= Len(d.allQueues) THEN d
    ELSE LET startIndex == d.currentLoadedCount
             endIndex == IF startIndex + batchSize < Len(d.allQueues)
                         THEN startIndex + batchSize ELSE Len(d.allQueues)
         IN [d EXCEPT !.isLoading = TRUE,
                      !.timeouts = Append(@,
                          [batchQueues |-> SubSeq(d.allQueues, startIndex + 1, endIndex),
                           endIndex |-> endIndex,
                           cardsContainer |-> IF d.container THEN "visible" ELSE "null"])]

startAutoLoadTimer(d) ==
    LET cleared == IF d.autoLoadTimer # "null" THEN ClearAutoLoadTimer(d) ELSE d
    IN IF cleared.currentLoadedCount >= Len(cleared.allQueues) THEN cleared
       ELSE [cleared EXCEPT !.intervals = Append(@, countdownStart),
                            !.autoLoadTimer = "interval"]

initializeLazyLoading(d, allQueues) ==
    LET fresh == [SetInnerHTML(d) EXCEPT !.allQueues = allQueues,
                                         !.currentLoadedCount = 0,
                                         !.isLoading = FALSE,
                                         !.autoLoadTimer = "null",
                                         !.container = TRUE]
    IN startAutoLoadTimer(loadNextBatch(fresh))

\* stats.sort by memory, heaviest first: the same stable sort as the server's.
sortedStats(stats) == SortByMemory(stats)

updateQueuesGrid(d, stats) ==
    IF Len(stats) = 0 THEN SetInnerHTML(d)
    ELSE initializeLazyLoading(d, sortedStats(stats))

updateDashboard(d, stats) == [updateQueuesGrid(d, stats) EXCEPT !.updates = @ + 1]

\* The callback of the oldest pending batch timeout.  With no container
\* captured, appendChild throws on the first card and the rest is skipped.
BatchCallback(d) ==
    LET t == Head(d.timeouts)
        rest == [d EXCEPT !.timeouts = Tail(@)]
    IN IF t.cardsContainer = "null" THEN rest
       ELSE LET loaded == [rest EXCEPT
                    !.cards = IF t.cardsContainer = "visible" THEN @ \o t.batchQueues ELSE @,
                    !.currentLoadedCount = t.endIndex,
                    !.isLoading = FALSE]
            IN IF loaded.currentLoadedCount < Len(loaded.allQueues)
               THEN startAutoLoadTimer(loaded) ELSE loaded

\* The callback of live interval i.  The count goes on falling below zero;
\* below -2 it is folded back to -1, the callback only testing countdown <= 0.
IntervalCallback(d, i) ==
    LET countdown == IF d.intervals[i] > -2 THEN d.intervals[i] - 1 ELSE -1
        counted == [d EXCEPT !.intervals[i] = countdown]
    IN IF countdown <= 0 THEN loadNextBatch(ClearAutoLoadTimer(counted)) ELSE counted

\* A handler that looks at queuesLoaded only, not at the page shown.
OnQueueStats_anyPage(d, stats) ==
    IF d.queuesLoaded THEN updateDashboard(d, stats) ELSE d

\* The queueStats handler of the push channel.
OnQueueStats(d, stats) ==
    IF d.currentPage = "queues" /\ d.queuesLoaded THEN updateDashboard(d, stats) ELSE d

(* The browser's events *)

SwitchToPage(page) ==
    /\ page = "redis" => dashboard.metricsFetches < MaxPending
    /\ page = "queues" /\ ~dashboard.queuesLoaded => dashboard.queueFetches < MaxPending
    /\ dashboard' =
         LET d == [dashboard EXCEPT !.currentPage = page, !.last = "switchToPage"]
         IN IF page = "redis" THEN [d EXCEPT !.metricsFetches = @ + 1]
            ELSE IF ~d.queuesLoaded
                 THEN [showQueuesLoading(showQueuesLoading(d)) EXCEPT !.queueFetches = @ + 1]
                 ELSE d
    /\ UNCHANGED serverVars

\* loadRedisMetrics after its fetch: the metrics panels are not modelled, a
\* failure writes its message into the queues grid.
MetricsFetched(ok) ==
    /\ dashboard.metricsFetches > 0
    /\ dashboard' =
         LET d == [dashboard EXCEPT !.metricsFetches = @ - 1, !.last = "loadRedisMetrics"]
         IN IF ok THEN d ELSE showError(d)
    /\ UNCHANGED serverVars

\* loadQueues after its fetch.
QueuesFetched(stats) ==
    /\ dashboard.queueFetches > 0
    /\ dashboard.updates < MaxUpdates
    /\ dashboard' = [updateDashboard(dashboard, stats) EXCEPT
                        !.queuesLoaded = TRUE, !.queueFetches = @ - 1, !.last = "loadQueues"]
    /\ UNCHANGED serverVars

QueuesFetchFailed ==
    /\ dashboard.queueFetches > 0
    /\ dashboard' = [showError(dashboard) EXCEPT !.queueFetches = @ - 1, !.last = "loadQueues"]
    /\ UNCHANGED serverVars

\* A click on the refresh button, which is disabled while a refresh of the
\* queues is awaited.
RefreshData ==
    /\ ~dashboard.refreshing
    /\ dashboard.currentPage = "redis" => dashboard.metricsFetches < MaxPending
    /\ dashboard' =
         LET d == [dashboard EXCEPT !.last = "refreshData"]
         IN IF d.currentPage = "redis" THEN [d EXCEPT !.metricsFetches = @ + 1]
            ELSE IF d.currentPage = "queues" /\ d.queuesLoaded
                 THEN [d EXCEPT !.refreshing = TRUE]
                 ELSE d
    /\ UNCHANGED serverVars

RefreshFetched(stats) ==
    /\ dashboard.refreshing
    /\ dashboard.updates < MaxUpdates
    /\ dashboard' = [updateDashboard(dashboard, stats) EXCEPT
                        !.refreshing = FALSE, !.last = "refreshData"]
    /\ UNCHANGED serverVars

RefreshFailed ==
    /\ dashboard.refreshing
    /\ dashboard' = [showError(dashboard) EXCEPT !.refreshing = FALSE, !.last = "refreshData"]
    /\ UNCHANGED serverVars

QueueStatsEvent(stats) ==
    /\ dashboard.currentPage = "queues" /\ dashboard.queuesLoaded
           => dashboard.updates < MaxUpdates
    /\ dashboard' = [OnQueueStats(dashboard, stats) EXCEPT !.last = "queueStats"]
    /\ UNCHANGED serverVars

BatchTimeout ==
    /\ dashboard.timeouts # <<>>
    /\ dashboard' = [BatchCallback(dashboard) EXCEPT !.last = "batchTimeout"]
    /\ UNCHANGED serverVars

IntervalTick(i) ==
    /\ i \in DOMAIN dashboard.intervals
    /\ dashboard' = [IntervalCallback(dashboard, i) EXCEPT !.last = "intervalTick"]
    /\ UNCHANGED serverVars

-----------------------------------------------------------------------------
(* The system *)

DashboardNext ==
    \/ \E page \in {"redis", "queues"} : SwitchToPage(page)
    \/ \E ok \in BOOLEAN : MetricsFetched(ok)
    \/ \E n \in FetchedSizes : QueuesFetched(QueueList(n))
    \/ QueuesFetchFailed
    \/ RefreshData
    \/ \E n \in FetchedSizes : RefreshFetched(QueueList(n))
    \/ RefreshFailed
    \/ \E n \in PushedSizes : QueueStatsEvent(QueueList(n))
    \/ BatchTimeout
    \/ \E i \in DOMAIN dashboard.intervals : IntervalTick(i)

\* The state when the server starts listening: connectRedis() has succeeded
\* or failed, nothing is discovered, previousCpuValues holds zero counters
\* and the load time.
Init ==
    /\ isOpen \in BOOLEAN
    /\ store \in StoreScenarios
    /\ info \in InfoReports
    /\ now = 1
    /\ discoveredQueues = <<>>
    /\ bullInstances = <<>>
    /\ queueStats = <<>>
    /\ redisMetricsHistory = [cpu |-> <<>>, memory |-> <<>>, timestamps |-> <<>>]
    /\ previousCpuValues = InitialCpuValues(now)
    /\ sockets = [c \in Conns |-> IdleSocket]
    /\ res = [route |-> "none"]
    /\ discoveries = <<>>
    /\ dashboard = InitialDashboard

Next ==
    \/ GetQueues
    \/ \E queueName \in RequestNames : GetQueue(queueName)
    \/ \E queueName \in RequestNames \cup InspectedNames : GetKeys(queueName)
    \/ \E queueName \in RequestNames, status \in RequestStatuses : GetJobs(queueName, status)
    \/ GetRedisMetricsRoute
    \/ \E c \in Conns : Connection(c)
    \/ \E c \in Conns : DiscoverReply(c)
    \/ \E c \in Conns : StatsStep(c)
    \/ \E c \in Conns : NextQueue(c)
    \/ \E c \in Conns : InfoReply(c)
    \/ \E c \in Conns : DbSizeReply(c)
    \/ \E c \in Conns : SendInitialData(c)
    \/ \E c \in Conns : Disconnect(c)
    \/ \E c \in Conns : Reconnect(c)
    \/ ConnectionChange
    \/ StoreChange
    \/ Tick
    \/ CpuWork
    \/ DashboardNext

Spec == Init /\ [][Next]_vars

-----------------------------------------------------------------------------
(* Specifications of the parts of the server.  The store's keys are fixed   *)
(* during a run of these; its connection, its answers and the clock are not. *)

PushChannel ==
    \/ \E c \in Conns : Connection(c)
    \/ \E c \in Conns : DiscoverReply(c)
    \/ \E c \in Conns : StatsStep(c)
    \/ \E c \in Conns : NextQueue(c)
    \/ \E c \in Conns : InfoReply(c)
    \/ \E c \in Conns : DbSizeReply(c)
    \/ \E c \in Conns : SendInitialData(c)

\* The runs about the queues start from an empty store or from one that holds
\* the keys of two queues, one of them without a Bull handle.
StatsInit ==
    /\ Init
    /\ info = InfoReport(0)
    /\ store \in {{}, KeysOf(KeyUniverse, "orders") \cup KeysOf(KeyUniverse, "legacy")}

\* The HTTP routes.
ApiNext ==
    \/ GetQueues
    \/ \E queueName \in RequestNames : GetKeys(queueName)
    \/ \E queueName \in RequestNames, status \in RequestStatuses : GetJobs(queueName, status)
    \/ \E queueName \in RequestNames : GetQueue(queueName)
    \/ GetRedisMetricsRoute
    \/ ConnectionChange

ApiInit == StatsInit

ApiSpec == ApiInit /\ [][ApiNext]_vars

\* Every producer of queue statistics: the two queue routes and the push channel.
StatsNext ==
    \/ GetQueues
    \/ \E queueName \in RequestNames : GetQueue(queueName)
    \/ PushChannel

StatsSpec == StatsInit /\ [][StatsNext]_vars

\* The push channel with its clients.
PushInit == Init /\ info = InfoReport(0) /\ store \in QueueScenarios

PushNext ==
    \/ PushChannel
    \/ \E c \in Conns : Disconnect(c)
    \/ ConnectionChange

PushSpec == PushInit /\ [][PushNext]_vars

\* The server takes every step it can; a client may stay connected for ever.
FairPushSpec == PushSpec /\ WF_vars(PushChannel)

\* Both metrics paths, with the clock and the store's CPU counters running,
\* over a store that holds the keys of one queue.
MetricsInit == Init /\ store = KeysOf(KeyUniverse, "orders")

MetricsNext ==
    \/ GetRedisMetricsRoute
    \/ PushChannel
    \/ ConnectionChange
    \/ Tick
    \/ CpuWork

MetricsSpec == MetricsInit /\ [][MetricsNext]_vars

\* Discovery cycle after cycle: clients come one after the other while the
\* keys of two queues, one of them without a Bull handle, come and go.
DiscoveryInit ==
    /\ Init
    /\ isOpen
    /\ info = InfoReport(0)
    /\ store = DiscoveryKeys

DiscoveryNext ==
    \/ PushChannel
    \/ \E c \in Conns : Reconnect(c)
    \/ \E k \in DiscoveryKeys : ToggleKey(k)

DiscoverySpec == DiscoveryInit /\ [][DiscoveryNext]_vars

\* The key inspector over stores that hold keys of every type.
KeysInit == Init /\ info = InfoReport(0) /\ store \in InspectorScenarios

KeysNext ==
    \/ \E queueName \in InspectedNames : GetKeys(queueName)
    \/ ConnectionChange

KeysSpec == KeysInit /\ [][KeysNext]_vars

\* The browser alone: the server's state stays as it started.
DashboardInit == Init /\ isOpen /\ info = InfoReport(0) /\ store = KeysOf(KeyUniverse, "orders")

DashboardSpec == DashboardInit /\ [][DashboardNext]_vars

\* The browser with timers that keep firing: a pending timeout runs, and so
\* does every interval that stays set.
FairDashboardSpec ==
    /\ DashboardSpec
    /\ WF_vars(BatchTimeout)
    /\ \A i \in 1..MaxUpdates : WF_vars(IntervalTick(i))

-----------------------------------------------------------------------------
(* Properties *)

\* Every QueueStatistics record in the state: the bodies of the two queue
\* routes, the cache, the records a running batch holds and the pushed ones.
RouteStats ==
    IF res.route = "/api/queues/:queueName" /\ res.code = 200 THEN {res.body}
    ELSE IF res.route = "/api/queues" /\ res.code = 200
    THEN {res.body[i] : i \in DOMAIN res.body}
    ELSE {}

BatchStats ==
    UNION {{sockets[c].allStats[j].stats : j \in DOMAIN sockets[c].allStats} : c \in Conns}

EventData(c, event) ==
    {sockets[c].events[e].data :
        e \in {x \in DOMAIN sockets[c].events : sockets[c].events[x].event = event}}

PushedStats ==
    UNION {UNION {{data[j] : j \in DOMAIN data} : data \in EventData(c, "queueStats")} :
           c \in Conns}

AllStats == RouteStats \cup BatchStats \cup PushedStats
            \cup {queueStats[n] : n \in DOMAIN queueStats}

\* A count field that is missing makes the sum NaN, which equals nothing.
TotalIsSum(r) ==
    /\ {"waiting", "active", "completed", "failed", "delayed", "total"} \subseteq DOMAIN r
    /\ r.total = r.waiting + r.active + r.completed + r.failed + r.delayed

\* C1: every QueueStatistics record produced without an error field (by
\* getQueueStats, by the batch, by GET /queues and by the store-only fallback
\* of GET /queues/{id}) has total = waiting + active + completed + failed + delayed.
C1_TotalIsSum == \A r \in AllStats : "error" \notin DOMAIN r => TotalIsSum(r)

\* A pushed record with three waiting and one failed job, total 4.
C1_Witness ==
    \E r \in PushedStats : "error" \notin DOMAIN r /\ r.waiting = 3 /\ r.failed = 1 /\ r.total = 4

\* Every metrics snapshot a client has received: the body of the metrics
\* route and the payloads of the redisMetrics events that carry a snapshot.
MetricsSnapshots ==
    (IF res.route = "/api/redis-metrics" /\ res.code = 200 THEN {res.body} ELSE {})
    \cup UNION {EventData(c, "redisMetrics") \ {NULL} : c \in Conns}

\* C2: in every MetricsSnapshot returned by any metrics path (push channel,
\* successful GET /metrics, default snapshot of GET /metrics) the cpu history,
\* memory history and timestamps have the same length, at most MAX_HISTORY_POINTS.
C2_HistoriesInLockstep ==
    \A m \in MetricsSnapshots :
       /\ Len(m.cpu.history) = Len(m.memory.history)
       /\ Len(m.cpu.history) = Len(m.timestamps)
       /\ Len(m.timestamps) <= MAX_HISTORY_POINTS

\* C3: the first CPU-rate computation after process start (RateState still at
\* its initial value) yields cpuPercent = 0 whatever the store reports, on the
\* push-channel path and on GET /metrics.
C3_FirstRateIsZero ==
    /\ (res.route = "/api/redis-metrics" /\ ~res.default
            /\ res.prev = InitialCpuValues(1))
         => res.body.cpu.current = Zero
    /\ \A c \in Conns :
         (sockets[c].mpc \in {"dbsize", "done"} /\ sockets[c].prev = InitialCpuValues(1))
           => sockets[c].cpu = Zero

\* C4: when the store connection is down, GET /queues answers 200 with an
\* empty array.
C4_DownMeansEmpty ==
    (res.route = "/api/queues" /\ ~res.open) => (res.code = 200 /\ res.body = <<>>)

\* The valid requests: any request to the queue list, a queue, its keys or the
\* metrics, and a job listing with a valid status on a registered queue.
ValidRequest ==
    \/ res.route \in {"/api/queues", "/api/queues/:queueName",
                      "/api/queues/:queueName/keys", "/api/redis-metrics"}
    \/ /\ res.route = "/api/queues/:queueName/jobs/:status"
       /\ res.registered
       /\ res.status \in JobStatuses

\* C5: every valid request gets a success response under every store
\* condition, never a server error.
C5_NeverServerError == ValidRequest => res.code \in 200..299

\* C6: the metrics snapshot operation never fails and never returns an absent
\* value, for GET /metrics and for the redisMetrics event pushed on connect.
C6_MetricsNeverAbsent ==
    /\ res.route = "/api/redis-metrics" => (res.code = 200 /\ res.body # NULL)
    /\ \A c \in Conns : NULL \notin EventData(c, "redisMetrics")

\* C7: getStats(id) never propagates a failure: when the count queries or the
\* pause query fail it returns all counts and total 0 with error set to the
\* message; a failure of the memory accounting alone (key scan or per-key
\* query) leaves the counts in place and sets no error.
C7_StatsNeverThrow ==
    (res.route = "/api/queues/:queueName" /\ "bull" \in DOMAIN res.in) =>
       /\ res.code = 200
       /\ res.in.bull = "error" =>
             /\ "error" \in DOMAIN res.body
             /\ res.body.error = ErrorMessage
             /\ \A f \in JobStatuses \cup {"total"} : res.body[f] = 0
       /\ res.in.bull = "ok" =>
             /\ "error" \notin DOMAIN res.body
             /\ \A status \in JobStatuses :
                   res.body[status] = Len(BullJobs(store, res.name, status))

\* The key scan failed and the four jobs are still counted.
C7_Witness ==
    /\ res.route = "/api/queues/:queueName"
    /\ "bull" \in DOMAIN res.in
    /\ res.in.bull = "ok"
    /\ res.in.keysOut = "error"
    /\ res.body.total = 4
    /\ res.body.memoryUsage = NULL

CountEvents(c, event) ==
    Cardinality({e \in DOMAIN sockets[c].events : sockets[c].events[e].event = event})

C9_UpdatesKeepComing ==
    \A c \in Conns : \A n \in {1, 2} :
       (sockets[c].connected /\ CountEvents(c, "queueStats") = n)
         ~> (~sockets[c].connected \/ CountEvents(c, "queueStats") > n)

\* C10: a job listing with a status outside the five job states, on a
\* registered queue, gets a client error (4xx), whatever the store's state.
C10_InvalidStatusIsClientError ==
    (res.route = "/api/queues/:queueName/jobs/:status"
        /\ res.registered /\ res.status \notin JobStatuses)
      => (res.code \in 400..499 /\ "error" \in DOMAIN res.body)

\* The status "bogus" asked of a registered queue while the store is down.
C10_Witness ==
    /\ res.route = "/api/queues/:queueName/jobs/:status"
    /\ res.registered
    /\ res.status = "bogus"
    /\ ~res.open
    /\ res.code = 400

\* C11: a job listing for a queue that has no key in the store gets a client
\* error (4xx), after any preceding sequence of requests, a GET of the same
\* queue included.
C11_UnknownQueueIsClientError ==
    (res.route = "/api/queues/:queueName/jobs/:status"
        /\ KeysOf(store, res.name) = {})
      => res.code \in 400..499


\* C12: discoverQueues returns every identifier the registry holds, those
\* registered by earlier cycles whose keys the current scan no longer finds
\* included.
C12_ReturnsAllKnown ==
    \A i \in DOMAIN discoveries : discoveries[i].known \subseteq discoveries[i].names

\* C13: of two consecutive discoverQueues runs that scanned the same keys,
\* the second returns the same set of identifiers as the first and
\* constructs no handle.
C13_DiscoveryIdempotent ==
    (Len(discoveries) > 1 /\ discoveries[1].keys = discoveries[Len(discoveries)].keys)
      => /\ discoveries[1].names = discoveries[Len(discoveries)].names
         /\ discoveries[Len(discoveries)].created = <<>>

\* Two runs over the keys of two queues, the first of which registered one of them.
C13_Witness ==
    /\ Len(discoveries) > 1
    /\ discoveries[1].keys = discoveries[Len(discoveries)].keys
    /\ discoveries[1].created = <<"emails">>
    /\ discoveries[Len(discoveries)].names = {"emails", "legacy"}


\* The records of a finished batch whose discovery scanned the store.
BatchDone(c) ==
    sockets[c].state = "running" /\ sockets[c].qpc = "done" /\ sockets[c].i > 0

\* C14: the batch returns exactly one record for every identifier discovered
\* in the cycle that has a registered handle; an identifier whose statistics
\* failed gets an all-zero record and the remaining ones are still processed.
C14_OneRecordPerQueue ==
    \A c \in Conns :
       BatchDone(c) =>
          LET allStats == sockets[c].allStats
              queueNames == sockets[c].queueNames
              expected == {queueNames[k] : k \in DOMAIN queueNames}
                            \cap DOMAIN discoveredQueues
          IN /\ \A n \in expected :
                   Cardinality({j \in DOMAIN allStats : allStats[j].stats.name = n}) = 1
             /\ \A j \in DOMAIN allStats :
                   /\ allStats[j].stats.name \in expected
                   /\ "error" \in DOMAIN allStats[j].stats =>
                         \A f \in JobStatuses \cup {"total"} : allStats[j].stats[f] = 0

\* A batch over three discovered names, one without a handle: the first
\* queue's statistics failed and the second queue's were computed.
C14_Witness ==
    \E c \in Conns :
       /\ BatchDone(c)
       /\ Len(sockets[c].queueNames) = 3
       /\ Len(sockets[c].allStats) = 2
       /\ "error" \in DOMAIN sockets[c].allStats[1].stats
       /\ "error" \notin DOMAIN sockets[c].allStats[2].stats


\* The bytes the keys of a queue occupy, a key whose MEMORY USAGE query
\* failed counting 0.
KeyBytes(st, queueName, memFail) ==
    SumOver(KeysOf(st, queueName),
            [k \in KeysOf(st, queueName) |-> IF k \in memFail THEN 0 ELSE KeyMem(k)])

\* C15: in every QueueStatistics delivered by GET /queues/{id} or in a pushed
\* queueStats event whose memoryUsage is present, memoryUsage.bytes is the sum
\* of the memory costs of the keys under the queue's prefix, a key whose
\* memory query failed contributing zero.
C15_MemoryIsKeySum ==
    [][/\ (res'.route = "/api/queues/:queueName" /\ res'.code = 200
             /\ res'.body.memoryUsage # NULL)
          => res'.body.memoryUsage.bytes = KeyBytes(store, res'.name, res'.in.memFail)
       /\ \A c \in Conns :
            (sockets[c].state = "running" /\ sockets'[c].state = "sent") =>
               \A j \in DOMAIN sockets[c].allStats :
                  LET r == sockets'[c].events[1].data[j]
                  IN r.memoryUsage # NULL =>
                        r.memoryUsage.bytes =
                           KeyBytes(store, r.name, sockets[c].allStats[j].in.memFail)
      ]_vars


\* The places of the records in the last key inspection that answered 200.
KeyRecords ==
    IF res.route = "/api/queues/:queueName/keys" /\ res.code = 200
    THEN DOMAIN res.body.keys
    ELSE {}

Rec(i) == res.body.keys[i]

Fetched(r) == res.fetch[r.key] = "ok"

\* C16: for a hash key with n fields the inspector returns exactly 50 real
\* field entries plus one marker reporting n - 50 omitted fields when n > 100,
\* and all n fields with no marker when n <= 100.
C16_HashTruncation ==
    \A ri \in KeyRecords : LET r == Rec(ri) IN
       (Fetched(r) /\ KeyType(r.key) = "hash") =>
          LET n == KeyLen(r.key)
          IN IF n > 100
             THEN /\ Len(r.value.array) = 51
                  /\ \A i \in 1..50 : r.value.array[i] = [item |-> i]
                  /\ r.value.array[51] = [more |-> n - 50]
             ELSE /\ Len(r.value.array) = n
                  /\ \A i \in 1..n : r.value.array[i] = [item |-> i]

\* C17: for a list, set or sorted-set key with n elements the inspector
\* returns all n elements and no marker when n <= 50, and the first 50
\* followed by one marker reporting n - 50 omitted elements when n > 50; the
\* value never holds more than 51 entries.
C17_CollectionTruncation ==
    \A ri \in KeyRecords : LET r == Rec(ri) IN
       (Fetched(r) /\ KeyType(r.key) \in {"list", "set", "zset"}) =>
          LET n == KeyLen(r.key)
          IN /\ Len(r.value.array) <= 51
             /\ IF n > 50
                THEN /\ Len(r.value.array) = 51
                     /\ \A i \in 1..50 : r.value.array[i] = [item |-> i]
                     /\ r.value.array[51] = [more |-> n - 50]
                ELSE /\ Len(r.value.array) = n
                     /\ \A i \in 1..n : r.value.array[i] = [item |-> i]

\* A list of 51 elements cut to 50 and a marker, beside a list of 50 in full
\* and a sorted set of 120 cut to 50 and a "70 more" marker.
C17_Witness ==
    \E ri, qi, zi \in KeyRecords : LET r == Rec(ri) q == Rec(qi) z == Rec(zi) IN
       /\ Fetched(r) /\ KeyType(r.key) = "list" /\ KeyLen(r.key) = 51
       /\ Len(r.value.array) = 51 /\ r.value.array[51] = [more |-> 1]
       /\ Fetched(q) /\ KeyType(q.key) = "list" /\ KeyLen(q.key) = 50
       /\ Len(q.value.array) = 50 /\ q.value.array[50] = [item |-> 50]
       /\ Fetched(z) /\ KeyType(z.key) = "zset" /\ Len(z.value.array) = 51
       /\ z.value.array[51] = [more |-> 70]

\* The response holds one record for every enumerated key.
OneRecordPerKey ==
    res.route = "/api/queues/:queueName/keys" /\ res.code = 200 =>
       /\ Len(res.body.keys) = Len(res.scan)
       /\ \A i \in DOMAIN res.scan :
             Cardinality({j \in DOMAIN res.body.keys : res.body.keys[j].key = res.scan[i]}) = 1

\* The type a failed fetch still reports: the key's type when the TYPE query
\* of the catch block answers, "unknown" when it fails too.
FailedType(r) ==
    IF res.fetch[r.key] \in {"valueError", "typeRetry"} THEN KeyType(r.key) ELSE "unknown"

\* C18 as stated: when fetching the type or value of one key fails, the
\* response still holds one record for every enumerated key; the failing
\* key's record carries a descriptive error string as value and its type (or
\* "unknown" when the type lookup also fails); the other records are unaffected.
C18_FailedFetchIsDescribed ==
    /\ OneRecordPerKey
    /\ \A ri \in KeyRecords : LET r == Rec(ri) IN
          IF Fetched(r)
          THEN r.type = KeyType(r.key) /\ r.value = KeyValue(r.key)
          ELSE r.value = [failed |-> ErrorMessage] /\ r.type = FailedType(r)

\* A hash whose field fetch failed: the record of the hash case's own catch.
HashPlaceholder(r) ==
    /\ KeyType(r.key) = "hash"
    /\ res.fetch[r.key] \in {"valueError", "valueErrorUnknown"}

\* C18 amended: as stated, except that a hash key whose field fetch fails
\* keeps the type "hash" and carries as value the placeholder "[Hash with N
\* fields]", N being the field count or "?" when that query fails too.
C18_FailedFetchIsDescribedOrSummarised ==
    /\ OneRecordPerKey
    /\ \A ri \in KeyRecords : LET r == Rec(ri) IN
          IF Fetched(r)
          THEN r.type = KeyType(r.key) /\ r.value = KeyValue(r.key)
          ELSE IF HashPlaceholder(r)
          THEN /\ r.type = "hash"
               /\ \/ r.value = [hashFields |-> KeyLen(r.key)]
                  \/ r.value = [hashFields |-> -1]
          ELSE r.value = [failed |-> ErrorMessage] /\ r.type = FailedType(r)

\* Three keys enumerated; the fetch of the set failed together with the
\* second TYPE query, the other two records hold their values.
C18_Witness ==
    /\ res.route = "/api/queues/:queueName/keys" /\ res.code = 200
    /\ Len(res.body.keys) = 3
    /\ \E ri \in KeyRecords : LET r == Rec(ri) IN
          /\ KeyType(r.key) = "set" /\ r.type = "unknown" /\ ~Fetched(r)
          /\ r.value = [failed |-> ErrorMessage]
    /\ Cardinality({ri \in KeyRecords : Fetched(Rec(ri)) /\ Rec(ri).value = KeyValue(Rec(ri).key)}) = 2

\* The place of a key in the key scan.
ScanIndex(k) == CHOOSE i \in DOMAIN res.scan : res.scan[i] = k

\* C19: the records are ordered by non-increasing memory cost, and two keys
\* of equal cost appear in the order in which the key scan enumerated them.
C19_SortedByMemoryStable ==
    res.route = "/api/queues/:queueName/keys" /\ res.code = 200 =>
       \A i, j \in DOMAIN res.body.keys :
          i < j =>
             /\ res.body.keys[i].memoryUsage >= res.body.keys[j].memoryUsage
             /\ res.body.keys[i].memoryUsage = res.body.keys[j].memoryUsage
                   => ScanIndex(res.body.keys[i].key) < ScanIndex(res.body.keys[j].key)

\* Two hashes of 9000 bytes each, scanned after a lighter one, lead the
\* response in their scan order.
C19_Witness ==
    /\ res.route = "/api/queues/:queueName/keys" /\ res.code = 200
    /\ Len(res.body.keys) = 3
    /\ KeyLen(res.scan[1]) = 100 /\ KeyLen(res.scan[2]) = 80 /\ KeyLen(res.scan[3]) = 150
    /\ res.body.keys[1].key = res.scan[2]
    /\ res.body.keys[2].key = res.scan[3]
    /\ res.body.keys[1].memoryUsage = res.body.keys[2].memoryUsage
    /\ res.body.keys[3].memoryUsage < res.body.keys[2].memoryUsage

\* C20: in every record, on the success path and on the per-key failure
\* path, sizeFormatted is the record's memory byte count divided by 1024 and
\* rounded to two decimals (half up), and size is that byte count.
C20_SizeFormattedFromBytes ==
    \A ri \in KeyRecords : LET r == Rec(ri) IN
       /\ r.size = r.memoryUsage
       /\ 1024 * r.sizeFormatted.kb <= 100 * r.memoryUsage + 512
       /\ 100 * r.memoryUsage + 512 < 1024 * (r.sizeFormatted.kb + 1)

\* A failed record of 777 bytes reads 0.76 KB beside a fetched one of 6100
\* bytes that reads 5.96 KB.
C20_Witness ==
    \E ri, qi \in KeyRecords : LET r == Rec(ri) q == Rec(qi) IN
       /\ ~Fetched(r) /\ r.memoryUsage = 777 /\ r.sizeFormatted = [kb |-> 76]
       /\ Fetched(q) /\ q.memoryUsage = 6100 /\ q.sizeFormatted = [kb |-> 596]

\* C21: every identifier in the registry was extracted by a discovery scan
\* from a key observed in the store under the namespace prefix; no request
\* registers an identifier that was never seen as a key prefix.  (The keys
\* of the store do not change in these runs.)
C21_RegisteredWereObserved ==
    \A queueName \in DOMAIN discoveredQueues : KeysOf(store, queueName) # {}

C23_RateStateAtomic ==
    [][previousCpuValues' # previousCpuValues =>
          \/ \E c \in Conns :
                /\ sockets[c].mpc = "info" /\ sockets'[c].mpc = "dbsize"
                /\ sockets'[c].prev = previousCpuValues
                /\ sockets'[c].cpu = CpuUsagePercent(previousCpuValues, sockets'[c].report, now)
                /\ previousCpuValues' = NextCpuValues(sockets'[c].report, now)
          \/ /\ sockets' = sockets
             /\ res'.route = "/api/redis-metrics" /\ ~res'.default
             /\ res'.prev = previousCpuValues
             /\ res'.body.cpu.current = CpuUsagePercent(previousCpuValues, info, now)
             /\ previousCpuValues' = NextCpuValues(info, now)]_vars

\* A push computation has written its sample and waits for DBSIZE; meanwhile
\* a GET /api/redis-metrics read that sample and wrote a later one.
C23_Witness ==
    \E c \in Conns :
       /\ sockets[c].mpc = "dbsize"
       /\ res.route = "/api/redis-metrics" /\ ~res.default
       /\ res.prev = NextCpuValues(sockets[c].report, res.prev.timestamp)
       /\ res.prev.timestamp > sockets[c].prev.timestamp
       /\ previousCpuValues # res.prev

\* C24: a cached QueueStatistics snapshot is never partially mutated: a
\* step changes the record cached for a queue only by putting there the
\* fresh record that a getQueueStats call of that step produced, either for
\* the per-queue route or for the loop of a push connection.
C24_SnapshotsNeverMutated ==
    [][\A queueName \in DOMAIN queueStats :
          queueStats'[queueName] # queueStats[queueName] =>
             \/ /\ \A c \in Conns : sockets'[c].events = sockets[c].events
                /\ res'.route = "/api/queues/:queueName" /\ res'.code = 200
                /\ res'.body = queueStats'[queueName]
             \/ \E c \in Conns :
                   /\ Len(sockets'[c].allStats) = Len(sockets[c].allStats) + 1
                   /\ sockets'[c].allStats[Len(sockets'[c].allStats)].stats
                         = queueStats'[queueName]]_vars

\* The names up to place i of a run for which the loop has a handle.
Handled(c, i) ==
    {j \in 1..i : j <= Len(sockets[c].queueNames)
                  /\ sockets[c].queueNames[j] \in DOMAIN discoveredQueues}

\* C25: within one run of updateAllQueueStats the queues are processed
\* strictly one after another: when the queries for the name at place i are
\* due, the records of all the handled names before it are final and in
\* allStats, in their order; the loop moves to the next name only from the
\* pause that follows a finished record (or from a name it has no handle for).
C25_OneQueueAtATime ==
    \A c \in Conns :
       /\ sockets[c].qpc = "loop" =>
             /\ Len(sockets[c].allStats) = Cardinality(Handled(c, sockets[c].i - 1))
             /\ \A j \in DOMAIN sockets[c].allStats :
                   Cardinality(Handled(c,
                      CHOOSE k \in DOMAIN sockets[c].queueNames :
                         sockets[c].queueNames[k] = sockets[c].allStats[j].stats.name)) = j
       /\ sockets[c].qpc = "pause" =>
             /\ Len(sockets[c].allStats) = Cardinality(Handled(c, sockets[c].i))
             /\ sockets[c].allStats[Len(sockets[c].allStats)].stats.name
                   = sockets[c].queueNames[sockets[c].i]

\* The second of three scanned names is due: the record of the first is in
\* allStats and no other.
C25_Witness ==
    \E c \in Conns :
       /\ sockets[c].qpc = "loop" /\ sockets[c].i = 2
       /\ Len(sockets[c].queueNames) = 3
       /\ Len(sockets[c].allStats) = 1
       /\ sockets[c].allStats[1].stats.name = sockets[c].queueNames[1]

\* C26: for the same INFO report and key count, GET /api/redis-metrics and
\* the pushed redisMetrics snapshot report the same memory maximum, the same
\* memory percent (to two decimals) and the same totalKeysSizeMB.
C26_MetricsPathsAgree ==
    \A c \in Conns :
       LET pushed == sockets[c].metrics
       IN (/\ res.route = "/api/redis-metrics" /\ ~res.default
           /\ sockets[c].mpc = "done" /\ "memory" \in DOMAIN pushed
           /\ DOMAIN sockets[c].report = DOMAIN info
           /\ pushed.totalKeys = res.body.totalKeys
           /\ pushed.memory.used = res.body.memory.used)
          => /\ res.body.memory.max = pushed.memory.max
             /\ res.body.memory.usagePercent.fixed2
                   = ToFixed2(pushed.memory.usagePercent.num,
                              pushed.memory.usagePercent.den)
             /\ res.body.totalKeysSizeMB = pushed.totalKeysSizeMB


-----------------------------------------------------------------------------
(* The dashboard's lazy loader *)

\* C27: at most one auto-load interval timer is live at any time, and a live
\* interval has not counted down to zero: one that did was cleared in the
\* same callback and cannot fire again.
C27_OneLiveInterval ==
    /\ Len(dashboard.intervals) <= 1
    /\ \A i \in DOMAIN dashboard.intervals : dashboard.intervals[i] > 0

\* C28: while the document has a cards container, currentLoadedCount never
\* exceeds allQueues.length and equals the number of cards in the container,
\* which holds the cards of the first currentLoadedCount queues of allQueues,
\* each once and in order.
C28_CardsMatchLoadedCount ==
    dashboard.container =>
    /\ dashboard.currentLoadedCount <= Len(dashboard.allQueues)
    /\ Len(dashboard.cards) = dashboard.currentLoadedCount
    /\ dashboard.cards = SubSeq(dashboard.allQueues, 1, dashboard.currentLoadedCount)

\* The loader is at rest: every queue has its card, no batch is loading and
\* no interval is set.
LoaderSettled ==
    /\ dashboard.currentLoadedCount = Len(dashboard.allQueues)
    /\ ~dashboard.isLoading
    /\ dashboard.intervals = <<>>

\* C29: once updateDashboard has been called, with timers that keep firing
\* and the cards container of the last call staying in the document, the
\* loader eventually is at rest and stays so: every queue rendered, no batch
\* loading, no auto-load timer active.
C29_LoaderSettles ==
    \/ [](dashboard.updates = 0)
    \/ []<>(~dashboard.container)
    \/ <>[]LoaderSettled

\* What the grid shows of the queues and what the loader holds: the queue
\* list, the loaded count, the timers and the cards.
RenderedQueues(d) ==
    <<d.allQueues, d.currentLoadedCount, d.isLoading, d.autoLoadTimer, d.intervals,
      d.timeouts, d.container, d.cards>>

\* C30: a queueStats event that arrives when the page shown is not 'queues'
\* or queuesLoaded is false leaves the queue list, the loaded count, the
\* timers and the cards as they were, and no step takes queuesLoaded from
\* true to false.
C30_QueueStatsGuarded ==
    [][/\ (dashboard'.last = "queueStats"
            /\ ~(dashboard.currentPage = "queues" /\ dashboard.queuesLoaded))
           => RenderedQueues(dashboard') = RenderedQueues(dashboard)
       /\ dashboard.queuesLoaded => dashboard'.queuesLoaded]_vars

\* An event arrived on the Redis page after the queues were loaded, with the
\* loader still at work, and was ignored.
C30_Witness ==
    /\ dashboard.last = "queueStats"
    /\ dashboard.currentPage = "redis"
    /\ dashboard.queuesLoaded
    /\ dashboard.updates = 1
    /\ dashboard.intervals # <<>>
    /\ dashboard.timeouts # <<>>

====
